---- MODULE Spec2Model ----
(***************************************************************************)
(* A model of fancy's Analysis driver (src/fancy/analysis/analysis.py) and *)
(* of the Model wrapper (src/fancy/interfaces/stan.py).                    *)
(*                                                                         *)
(* Angles, times and energies are integers: the code only compares and     *)
(* adds them.  Arrays are sequences or shapes.  An attribute that was      *)
(* never assigned is the empty set (or the string "unset"); reading it     *)
(* raises AttributeError.                                                  *)
(*                                                                         *)
(* Spec is the driver, one action per method.  SpecZenith follows          *)
(* _simulate_zenith_angles draw by draw, SpecSave the driver with save,    *)
(* SpecPrepare the row selection of _prepare_fit_inputs over repeated      *)
(* calls, SpecEnergy the pool of build_energy_table, SpecKappa the kappa   *)
(* grid of build_tables and SpecFlux the flux input of simulate.           *)
(***************************************************************************)
EXTENDS Integers, Sequences, FiniteSets, TLC

\* ------------------------------------------------------------------ bounds
MaxN == 2          \* longest sequence of arrival directions
MaxDt == 1         \* largest time increment np.random.exponential returns
MaxZa == 2         \* largest zenith angle the coordinate transform returns
NumSources == 2    \* len(self.data.source.distance)
MaxEvents == 3     \* most events one run of the simulation sampler returns
ModelEth == 2      \* self.model.Eth, the fit threshold

\* ------------------------------------------------------- program constants
RetryBudget == 100 \* "if (i > 100)"
ZaInit == 99       \* "za = 99"
StartYear == 2004  \* "start_year=2004"

ThrValues == 0 .. (MaxZa - 1)   \* detector.threshold_zenith_angle.rad
DtValues == 0 .. MaxDt          \* outcomes of np.random.exponential
ZaValues == 0 .. MaxZa          \* outcomes of _get_zenith_angle

VARIABLES
    Ndir,        \* len(self.arrival_direction.d.icrs)
    threshold,   \* self.data.detector.threshold_zenith_angle.rad
    zpc,         \* position inside _simulate_zenith_angles
    zen,         \* the locals of _simulate_zenith_angles
    hist,        \* history: the directions counted stuck / that drew low
    analysis_type,     \* self.analysis_type
    model,             \* self.model: ptype, Eth, Eth_sim
    tables,            \* self.tables: sim_table, table, kappa
    E_grid,            \* self.E_grid
    Earr_grid,         \* self.Earr_grid
    gmf,               \* self.ptype and self.kappa_d
    uhecr,             \* self.data.uhecr
    simulation_input,  \* self.simulation_input
    simulation,        \* self.simulation is not None
    fit_input,         \* self.fit_input
    fit,               \* self.fit and self.chain
    diagnostics,       \* the diagnostics' report, if the last call had one
    last,              \* the last call: operation, outcome, sampler invoked
    store,             \* the file self.filename names, as save writes it
    prepare,           \* _prepare_fit_inputs: source selection and locals
    pool,              \* build_energy_table: the pool's tasks and results
    kgrid,             \* build_tables: num_points and the kappa grid
    flux               \* simulate: data.source.flux and the 'flux' input

zvars == <<Ndir, threshold, zpc, zen, hist>>
dvars == <<analysis_type, model, tables, E_grid, Earr_grid, gmf, uhecr,
           simulation_input, simulation, fit_input, fit, diagnostics, last>>
xvars == <<store, prepare, pool, kgrid, flux>>
vars == <<zvars, dvars, xvars>>

\* an attribute is the set of its value: {} when it was never assigned (or
\* is None), {v} when it holds v
Val(a) == CHOOSE v \in a : TRUE

\* ------------------------------------------------ _simulate_zenith_angles
\* time = []; zenith_angles = []; stuck = []; j = 0; first = True
ZenithEnter ==
    [time |-> <<>>, zenith_angles |-> <<>>, stuck |-> <<>>, j |-> 0,
     first |-> TRUE, za |-> ZaInit, i |-> 0, t |-> 0]

\* for d in c_icrs: za = 99; i = 0
ZenithForHead(s) == [s EXCEPT !.za = ZaInit, !.i = 0]

\* mutant: the loop also accepts an angle one above the threshold
ZenithWhileCond_Mut(s, thr) == s.za > thr + 1

\* while (za > threshold_zenith_angle.rad)
ZenithWhileCond(s, thr) == s.za > thr

\* one pass of the while body: a draw dt of the exponential and the angle the
\* coordinate transform returns for the drawn time
ZenithWhileBody(s, thr, dt, angle) ==
    LET t1 == IF s.first THEN StartYear + dt
              ELSE s.time[Len(s.time)] + dt
        i1 == s.i + 1
    IN  [s EXCEPT !.t = t1,
                  !.i = i1,
                  !.za = IF i1 > RetryBudget THEN thr ELSE angle,
                  !.stuck = IF i1 > RetryBudget THEN Append(s.stuck, 1)
                            ELSE s.stuck]

\* mutant: first is never cleared, every draw starts from start_year
ZenithForTail_Mut(s) ==
    [s EXCEPT !.time = Append(s.time, s.t),
              !.zenith_angles = Append(s.zenith_angles, s.za),
              !.j = s.j + 1]

\* time.append(t); first = False; zenith_angles.append(za); j += 1
ZenithForTail(s) ==
    [s EXCEPT !.time = Append(s.time, s.t),
              !.first = FALSE,
              !.zenith_angles = Append(s.zenith_angles, s.za),
              !.j = s.j + 1]

\* a single direction is unwrapped to a scalar coordinate (icrs[0]), and the
\* for statement over a scalar coordinate raises TypeError
ZenithRaises(n) == n = 1

\* ---- the function step by step, every draw an outcome of its own
ZStart ==
    /\ zpc = "call"
    /\ zen' = ZenithEnter
    /\ zpc' = IF ZenithRaises(Ndir) THEN "raise" ELSE "for"
    /\ UNCHANGED <<Ndir, threshold, hist, dvars, xvars>>

ZFor ==
    /\ zpc = "for"
    /\ IF zen.j < Ndir
       THEN zen' = ZenithForHead(zen) /\ zpc' = "while"
       ELSE zen' = zen /\ zpc' = "return"
    /\ UNCHANGED <<Ndir, threshold, hist, dvars, xvars>>

ZDraw ==
    /\ zpc = "while"
    /\ ZenithWhileCond(zen, threshold)
    /\ \E dt \in DtValues, angle \in ZaValues :
          /\ zen' = ZenithWhileBody(zen, threshold, dt, angle)
          /\ hist' = [low |-> IF angle <= threshold
                              THEN hist.low \cup {zen.j + 1} ELSE hist.low,
                      stuck_dirs |-> IF Len(zen'.stuck) > Len(zen.stuck)
                                     THEN hist.stuck_dirs \cup {zen.j + 1}
                                     ELSE hist.stuck_dirs]
    /\ UNCHANGED <<Ndir, threshold, zpc, dvars, xvars>>

ZAppend ==
    /\ zpc = "while"
    /\ ~ZenithWhileCond(zen, threshold)
    /\ zen' = ZenithForTail(zen)
    /\ zpc' = "for"
    /\ UNCHANGED <<Ndir, threshold, hist, dvars, xvars>>

\* ---- the function as one call, for simulate: the draws of a direction are
\* nrej angles above the threshold and then the angle za, each dt later
RECURSIVE ZenithRunWhile(_, _, _)
ZenithRunWhile(s, thr, draws) ==
    IF ~ZenithWhileCond(s, thr) THEN s
    ELSE ZenithRunWhile(
            ZenithWhileBody(s, thr, draws.dt,
                            IF s.i < draws.nrej THEN thr + 1 ELSE draws.za),
            thr, draws)

RECURSIVE ZenithRunFor(_, _, _)
ZenithRunFor(s, thr, stream) ==
    IF s.j < Len(stream)
    THEN ZenithRunFor(
            ZenithForTail(ZenithRunWhile(ZenithForHead(s), thr,
                                         stream[s.j + 1])),
            thr, stream)
    ELSE s

\* the draws _simulate_zenith_angles sees for one direction
DrawSummaries ==
    {[nrej |-> 0, za |-> 0, dt |-> 1],
     [nrej |-> RetryBudget + 1, za |-> 0, dt |-> 0]}

\* the streams explored: every direction of a call sees the same draws
DrawStreams(n) == {[k \in 1 .. n |-> d] : d \in DrawSummaries}

\* the zenith angles returned for every stream of draws, computed once
ZenithAngles ==
    [thr \in ThrValues |->
        [stream \in UNION {DrawStreams(n) : n \in 0 .. MaxEvents} |->
            ZenithRunFor(ZenithEnter, thr, stream).zenith_angles] @@ <<>>]
    @@ <<>>

simulate_zenith_angles(thr, stream) == ZenithAngles[thr][stream]


\* ------------------------------------------------------------ the driver
arr_dir_type == "arrival_direction"
E_loss_type == "energy_loss"
joint_type == "joint"
gmf_type == "joint_gmf"
Modes == {arr_dir_type, E_loss_type, joint_type, gmf_type}

\* analysis_type.find('joint'): the index of the substring, -1 when absent
FindJoint(mode) == IF mode \in {joint_type, gmf_type} THEN 0 ELSE 0 - 1

\* the keys of get_nucleartable() that are used here, and their charge Z
Ptypes == {"p", "N"}
NucZ(ptype) == IF ptype = "p" THEN 1 ELSE 7

\* get_Eth_sim(energy_uncertainty, Eth): a threshold below Eth
get_Eth_sim(Eth) == Eth - 1

\* ExposureIntegralTable(...): table and sim_table start as empty lists
EmptyTable == [kind |-> "list", shape |-> <<0>>]
NewTables == [sim_table |-> 0, table |-> EmptyTable, kappa |-> 0]

RECURSIVE Prod(_)
Prod(shape) == IF shape = <<>> THEN 1 ELSE Head(shape) * Prod(Tail(shape))

\* the persisted table stores use_tables reads
TableFiles ==
    {[table |-> <<1, NumSources, 10>>, kappa |-> 10, energy |-> {},
      kappa_d |-> {}],
     [table |-> <<1, NumSources, 10>>, kappa |-> 10,
      energy |-> {[rows |-> NumSources, cols |-> 10]}, kappa_d |-> {"p"}],
     [table |-> <<NumSources, 10>>, kappa |-> 10,
      energy |-> {[rows |-> NumSources, cols |-> 5]}, kappa_d |-> Ptypes]}

\* the UHECR dataset the Data object is constructed with
ObservedUhecr ==
    [label |-> "data", N |-> 2, unit_vector |-> <<1, 2>>,
     energy |-> <<ModelEth, ModelEth>>, zenith_angle |-> <<0, 0>>, A |-> 2,
     source_labels |-> <<>>, ptype |-> "N"]

NoCall(op) == [op |-> op, result |-> "ok", sampler |-> FALSE]
Raised(op, err, sampler) == [op |-> op, result |-> err, sampler |-> sampler]
Returned(op, sampler) == [op |-> op, result |-> "ok", sampler |-> sampler]

\* Analysis.__init__
InitDriver(mode, ptype, data_uhecr) ==
    /\ analysis_type = mode
    /\ model = [ptype |-> ptype, Eth |-> ModelEth,
                Eth_sim |-> IF FindJoint(mode) # 0 - 1
                            THEN {get_Eth_sim(ModelEth)} ELSE {}]
    /\ tables = NewTables
    /\ E_grid = {}
    /\ Earr_grid = {}
    /\ gmf = [ptype |-> "unset", kappa_d |-> "unset"]
    /\ uhecr = data_uhecr
    /\ simulation_input = [keys |-> {}, Z |-> {}, handed |-> FALSE]
    /\ simulation = FALSE
    /\ fit_input = [keys |-> {}, Z |-> {}, kappa_d |-> "unset",
                    done |-> FALSE]
    /\ fit = [fit |-> FALSE, chain |-> FALSE]
    /\ diagnostics = "none"
    /\ last = NoCall("__init__")

\* the file of self.filename: initialised by __init__ when a filename was
\* given, with the groups, the sections and the fit datasets save wrote
StoreOf(file) ==
    [file |-> file, groups |-> {}, sections |-> {}, fit |-> {}]

\* no run of _prepare_fit_inputs' row selection, of build_energy_table's
\* pool, of build_tables' kappa grid or of simulate's flux input is followed
PrepareIdle == [pc |-> "idle"]
PoolIdle == [pc |-> "idle"]
KgridIdle == [pc |-> "idle"]
FluxIdle == [pc |-> "idle"]

OthersIdle ==
    /\ prepare = PrepareIdle
    /\ pool = PoolIdle
    /\ kgrid = KgridIdle
    /\ flux = FluxIdle

\* outside a step-by-step run the locals of _simulate_zenith_angles are idle
ZenithIdle ==
    /\ Ndir = 0
    /\ threshold = MaxZa - 1
    /\ zpc = "idle"
    /\ zen = ZenithEnter
    /\ hist = [low |-> {}, stuck_dirs |-> {}]

Init ==
    /\ ZenithIdle
    /\ OthersIdle
    /\ store = StoreOf(TRUE)
    /\ \E mode \in Modes, ptype \in {"unset", "p"},
          data_uhecr \in {{}, {ObservedUhecr}} :
          /\ (mode # gmf_type => ptype = "unset")
          /\ InitDriver(mode, ptype, data_uhecr)

\* ---- build_tables
\* int(num_points * 0.7) is computed in double precision: 0.7 is stored
\* slightly below 7/10, and at these num_points (all there are below 330)
\* the product rounds to just below the integer 7 n / 10
SevenTenthsShort == {90, 170, 180}

\* int(num_points * 0.7), int(num_points * 0.2), int(num_points * 0.1);
\* the products with 0.2 and 0.1 truncate to the integer quotient
IntTenths(num_points, tenths) ==
    IF tenths = 7 /\ num_points \in SevenTenthsShort
    THEN (num_points * 7) \div 10 - 1
    ELSE (num_points * tenths) \div 10

\* np.logspace over the decade that starts at 10^decade, num values: a
\* value 10^(n/d) is the record [n |-> n, d |-> d]; one value is the start
\* alone, several end at the end of the decade
Logspace(decade, num) ==
    IF num = 1 THEN <<[n |-> decade, d |-> 1]>>
    ELSE [j \in 1 .. num |->
             [n |-> decade * (num - 1) + (j - 1), d |-> num - 1]]

\* a[1:]
DropFirst(a) == IF a = <<>> THEN <<>> ELSE Tail(a)

\* kappa = np.concatenate((kappa_first, kappa_second[1:], kappa_third[1:]))
KappaGrid(num_points) ==
    Logspace(0, IntTenths(num_points, 7))
        \o DropFirst(Logspace(1, IntTenths(num_points, 2) + 1))
        \o DropFirst(Logspace(2, IntTenths(num_points, 1) + 1))

\* the fit kappa grid: int(0.7 n) + int(0.2 n) + 1 - 1 + int(0.1 n) + 1 - 1
KappaLen(num_points) ==
    LET first == IntTenths(num_points, 7)
        second == IntTenths(num_points, 2) + 1
        third == IntTenths(num_points, 1) + 1
    IN  first + (second - 1) + (third - 1)

NumPointsValues == {10}

BuildSim(sim_only, tab) ==
    IF sim_only THEN [tab EXCEPT !.sim_table = NumSources] ELSE tab

BuildFit(fit_only, num_points, parallel, tab) ==
    IF fit_only
    THEN [tab EXCEPT
            !.table = [kind |-> "ndarray",
                       shape |-> IF parallel
                                 THEN <<1, NumSources, KappaLen(num_points)>>
                                 ELSE <<NumSources, KappaLen(num_points)>>],
            !.kappa = KappaLen(num_points)]
    ELSE tab

build_tables(num_points, sim_only, fit_only, parallel) ==
    /\ tables' = BuildFit(fit_only, num_points, parallel,
                          BuildSim(sim_only, tables))
    /\ last' = Returned("build_tables", FALSE)
    /\ diagnostics' = "none"
    /\ UNCHANGED <<analysis_type, model, E_grid, Earr_grid, gmf, uhecr,
                   simulation_input, simulation, fit_input, fit,
                   zvars, xvars>>

\* ---- build_energy_table: E_grid has num_points values, Earr_grid is a
\* Python list of one row per source distance
build_energy_table(num_points, parallel) ==
    /\ E_grid' = {num_points}
    /\ Earr_grid' = {[kind |-> "list", rows |-> NumSources,
                      cols |-> num_points]}
    /\ last' = Returned("build_energy_table", FALSE)
    /\ diagnostics' = "none"
    /\ UNCHANGED <<analysis_type, model, tables, gmf, uhecr,
                   simulation_input, simulation, fit_input, fit,
                   zvars, xvars>>

\* ---- use_tables
\* if self.analysis_type.find("joint") != -1
UseEnergy(mode) == FindJoint(mode) # 0 - 1
\* if self.analysis_type == self.gmf_type
UseKappaD(mode) == mode = gmf_type

\* mutant: the tables object is replaced whole, as with main_only=False
UseMain_Mut(file, tab) ==
    [sim_table |-> 0, table |-> [kind |-> "ndarray", shape |-> file.table],
     kappa |-> file.kappa]

\* main_only: self.tables.table and self.tables.kappa are assigned from
\* the file's table, nothing else of self.tables
UseMain(file, tab) ==
    [tab EXCEPT !.table = [kind |-> "ndarray", shape |-> file.table],
                !.kappa = file.kappa]

use_tables(file, main_only) ==
    /\ IF main_only
       THEN LET tab1 == UseMain(file, tables)
            IN  /\ tables' = tab1
                /\ IF UseEnergy(analysis_type) /\ file.energy = {}
                   THEN \* f['energy/E_grid'] raises KeyError
                        /\ last' = Raised("use_tables", "KeyError", FALSE)
                        /\ UNCHANGED <<E_grid, Earr_grid, gmf>>
                   ELSE /\ E_grid' = IF UseEnergy(analysis_type)
                                     THEN {Val(file.energy).cols}
                                     ELSE E_grid
                        /\ Earr_grid' =
                              IF UseEnergy(analysis_type)
                              THEN {[kind |-> "ndarray",
                                     rows |-> Val(file.energy).rows,
                                     cols |-> Val(file.energy).cols]}
                              ELSE Earr_grid
                        /\ IF ~UseKappaD(analysis_type)
                           THEN /\ gmf' = gmf
                                /\ last' = Returned("use_tables", FALSE)
                           ELSE IF uhecr = {}
                           THEN \* self.data.uhecr.ptype of None
                                /\ gmf' = gmf
                                /\ last' = Raised("use_tables",
                                                  "AttributeError", FALSE)
                           ELSE IF Val(uhecr).ptype \notin file.kappa_d
                           THEN \* f['kappa_d'][self.ptype] raises KeyError
                                /\ gmf' = [gmf EXCEPT
                                              !.ptype = Val(uhecr).ptype]
                                /\ last' = Raised("use_tables", "KeyError",
                                                  FALSE)
                           ELSE /\ gmf' = [ptype |-> Val(uhecr).ptype,
                                           kappa_d |-> Val(uhecr).ptype]
                                /\ last' = Returned("use_tables", FALSE)
       ELSE /\ tables' = [sim_table |-> 0,
                          table |-> [kind |-> "ndarray",
                                     shape |-> file.table],
                          kappa |-> file.kappa]
            /\ last' = Returned("use_tables", FALSE)
            /\ UNCHANGED <<E_grid, Earr_grid, gmf>>
    /\ diagnostics' = "none"
    /\ UNCHANGED <<analysis_type, model, uhecr, simulation_input,
                   simulation, fit_input, fit,
                   zvars, xvars>>

\* ---- simulate
SimBaseKeys ==
    {"kappa_d", "Ns", "varpi", "D", "A", "a0", "lon", "theta_m", "alpha_T",
     "eps", "L", "F0", "distance"}

\* mutant: kappa is also passed in joint mode
SimKappaKeys_Mut(mode) ==
    IF mode # gmf_type THEN {"kappa"} ELSE {}

SimKappaKeys(mode) ==
    IF mode = arr_dir_type \/ mode = E_loss_type THEN {"kappa"} ELSE {}

SimFieldKeys(mode) ==
    IF mode = joint_type \/ mode = gmf_type THEN {"B"} ELSE {}

SimEnergyKeys(mode) ==
    IF mode = E_loss_type \/ mode = joint_type \/ mode = gmf_type
    THEN {"alpha", "Eth", "Eerr"} ELSE {}

SimCompositionKeys(mode) == IF mode = gmf_type THEN {"Z"} ELSE {}

\* mutant: a composition is there by default
PtypeMissing_Mut(m) == FALSE

\* Model.__init__ and simulation_inputs assign no ptype: reading
\* self.model.ptype raises AttributeError until the caller has set it
PtypeMissing(m) == m.ptype = "unset"

\* the modes in which energies are simulated, cut and fitted
EnergyMode(mode) ==
    mode = joint_type \/ mode = E_loss_type \/ mode = gmf_type

\* "if Eth_sim:" is false for None and for 0
Truthy(a) == a # {} /\ Val(a) # 0

\* mutant: the cut is made at the simulation threshold, one below Eth
RECURSIVE EnergyCut_Mut(_, _, _)
EnergyCut_Mut(events, Eth, k) ==
    IF k > Len(events) THEN <<>>
    ELSE IF events[k].Edet >= Eth - 1
         THEN <<k>> \o EnergyCut_Mut(events, Eth, k + 1)
         ELSE EnergyCut_Mut(events, Eth, k + 1)

\* np.where(self.Edet >= self.model.Eth): the indices kept, in order
RECURSIVE EnergyCut(_, _, _)
EnergyCut(events, Eth, k) ==
    IF k > Len(events) THEN <<>>
    ELSE IF events[k].Edet >= Eth
         THEN <<k>> \o EnergyCut(events, Eth, k + 1)
         ELSE EnergyCut(events, Eth, k + 1)

AllEvents(events) == [k \in 1 .. Len(events) |-> k]

\* mutant: the source labels are not cut with the events
SimUhecr_Mut(mode, events, inds, zenith_angles, ptype) ==
    [label |-> "sim_uhecr",
     N |-> Len(inds),
     unit_vector |-> inds,
     energy |-> IF EnergyMode(mode)
                THEN [k \in 1 .. Len(inds) |-> events[inds[k]].Edet]
                ELSE <<>>,
     zenith_angle |-> zenith_angles,
     A |-> Len(inds),
     source_labels |-> [k \in 1 .. Len(events) |-> events[k].lambda - 1],
     ptype |-> IF mode = gmf_type THEN ptype ELSE "p"]

\* the dataset built from the events kept and their zenith angles
SimUhecr(mode, events, inds, zenith_angles, ptype) ==
    [label |-> "sim_uhecr",
     N |-> Len(inds),
     unit_vector |-> inds,
     energy |-> IF EnergyMode(mode)
                THEN [k \in 1 .. Len(inds) |-> events[inds[k]].Edet]
                ELSE <<>>,
     zenith_angle |-> zenith_angles,
     A |-> Len(inds),
     source_labels |-> [k \in 1 .. Len(inds) |-> events[inds[k]].lambda - 1],
     ptype |-> IF mode = gmf_type THEN ptype ELSE "p"]

\* what one run of the simulation sampler can return: Edet and lambda of
\* each event (no energies in arrival_direction mode).  The sampler is an
\* opaque service; the outputs explored are the ones below.
\* Eth_sim <= Edet: an event is below the fit threshold or at it
EdetValues == {ModelEth - 1, ModelEth}

\* event k is labelled with source ((k - 1) mod Ns) + 1
LambdaOf(k) == ((k - 1) % NumSources) + 1

SamplerEvents(mode, n) ==
    {[k \in 1 .. n |-> [Edet |-> e[k], lambda |-> LambdaOf(k)]] :
        e \in [1 .. n -> IF EnergyMode(mode) THEN EdetValues ELSE {0}]}

SamplerOutputs(mode) ==
    UNION {SamplerEvents(mode, n) : n \in 0 .. MaxEvents}

EthArgs == {{}, {0}, {ModelEth - 1}}

simulate(Eth_sim, events, stream) ==
    LET mode == analysis_type
        Eth_sim1 == IF EnergyMode(mode) /\ Truthy(Eth_sim)
                    THEN Eth_sim ELSE model.Eth_sim
        keysA == SimBaseKeys \cup SimKappaKeys(mode) \cup SimFieldKeys(mode)
        inds == IF EnergyMode(mode) THEN EnergyCut(events, model.Eth, 1)
                ELSE AllEvents(events)
    IN
    /\ model' = [model EXCEPT !.Eth_sim = Eth_sim1]
    /\ IF EnergyMode(mode) /\ Eth_sim1 = {}
       THEN \* self.model.Eth_sim was never assigned
            /\ simulation_input' = [keys |-> keysA \cup {"alpha"},
                                    Z |-> {}, handed |-> FALSE]
            /\ last' = Raised("simulate", "AttributeError", FALSE)
            /\ UNCHANGED <<simulation, uhecr>>
       ELSE IF mode = gmf_type /\ PtypeMissing(model)
       THEN \* self.model.ptype was never assigned
            /\ simulation_input' = [keys |-> keysA \cup SimEnergyKeys(mode),
                                    Z |-> {}, handed |-> FALSE]
            /\ last' = Raised("simulate", "AttributeError", FALSE)
            /\ UNCHANGED <<simulation, uhecr>>
       ELSE
            /\ simulation_input' =
                  [keys |-> keysA \cup SimEnergyKeys(mode)
                                  \cup SimCompositionKeys(mode)
                                  \cup {"flux"},
                   Z |-> IF mode = gmf_type THEN {NucZ(model.ptype)}
                         ELSE {},
                   handed |-> TRUE]
            /\ IF tables.sim_table # NumSources
               THEN \* eps has no row per source: the sampler rejects it
                    /\ last' = Raised("simulate", "SamplerError", TRUE)
                    /\ UNCHANGED <<simulation, uhecr>>
               ELSE /\ simulation' = TRUE
                    /\ IF ZenithRaises(Len(inds))
                       THEN /\ last' = Raised("simulate", "TypeError", TRUE)
                            /\ uhecr' = uhecr
                       ELSE /\ last' = Returned("simulate", TRUE)
                            /\ uhecr' =
                                  {SimUhecr(mode, events, inds,
                                       simulate_zenith_angles(threshold,
                                                              stream),
                                       model.ptype)}
    /\ diagnostics' = "none"
    /\ UNCHANGED <<analysis_type, tables, E_grid, Earr_grid, gmf,
                   fit_input, fit,
                   zvars, xvars>>

Simulate ==
    \E Eth_sim \in EthArgs, events \in SamplerOutputs(analysis_type) :
       LET n == IF EnergyMode(analysis_type)
                THEN Len(EnergyCut(events, model.Eth, 1))
                ELSE Len(events)
       IN  \E stream \in DrawStreams(n) :
              simulate(Eth_sim, events, stream)

\* ---- _prepare_fit_inputs and fit_model
FitBaseKeys ==
    {"Ns", "varpi", "D", "N", "arrival_direction", "A", "alpha_T", "Ngrid",
     "eps", "kappa_grid", "zenith_angle"}

FitEnergyKeys(mode) ==
    IF mode = joint_type \/ mode = E_loss_type \/ mode = gmf_type
    THEN {"Edet", "Eth", "Eerr", "E_grid", "Earr_grid"} ELSE {}

FitCompositionKeys(mode) == IF mode = gmf_type THEN {"Z"} ELSE {}

\* mutant: the detector's kappa_d is used in every mode
\* fit_input["Z"]: the charge nuc_table holds for self.ptype, in the
\* joint_gmf mode only
FitZ(mode, g) == IF mode = gmf_type THEN {NucZ(g.ptype)} ELSE {}

FitKappaD_Mut(mode, g) == "detector"

\* fit_input["kappa_d"]: self.kappa_d or self.data.detector.kappa_d
FitKappaD(mode, g) == IF mode = gmf_type THEN g.kappa_d ELSE "detector"

\* what check_all_diagnostics can report about the fit: nothing, or
\* warnings (divergences, tree depth saturated, low energy fraction)
DiagReports == {"clean", "warnings"}

\* mutant: the chain is not extracted when the report has warnings
ExtractChain_Mut(report) == report = "clean"

\* self.chain = self.fit.extract(permuted=True), whatever was reported
ExtractChain(report) == TRUE

\* stan_utility.utils.check_all_diagnostics(self.fit) prints its report
\* and returns, whatever the report says
DiagnosticsRaise(report) == FALSE

fit_model(report) ==
    LET mode == analysis_type
        shape == <<Val(Earr_grid).rows, Val(Earr_grid).cols>>
        fail(err) ==
            /\ last' = Raised("fit_model", err, FALSE)
            /\ diagnostics' = "none"
            /\ UNCHANGED <<fit>>
    IN
    /\ IF E_grid = {} \/ Earr_grid = {}
       THEN \* self.E_grid / self.Earr_grid was never assigned
            fail("AttributeError") /\ UNCHANGED <<tables, fit_input>>
       ELSE IF tables.table.kind = "list" \/ Val(Earr_grid).kind = "list"
       THEN \* a list has neither resize nor shape
            fail("AttributeError") /\ UNCHANGED <<tables, fit_input>>
       ELSE IF Prod(tables.table.shape) # Prod(shape)
       THEN \* resize of a referenced array to another size
            fail("ValueError") /\ UNCHANGED <<tables, fit_input>>
       ELSE /\ tables' = [tables EXCEPT !.table.shape = shape]
            /\ IF uhecr = {}
               THEN \* self.data.uhecr.N of None
                    fail("AttributeError") /\ UNCHANGED fit_input
               ELSE IF mode = gmf_type /\ gmf.ptype = "unset"
               THEN \* self.ptype was never assigned
                    /\ fit_input' = [keys |-> FitBaseKeys
                                               \cup FitEnergyKeys(mode),
                                     Z |-> {}, kappa_d |-> "unset",
                                     done |-> FALSE]
                    /\ fail("AttributeError")
               ELSE IF mode = gmf_type /\ gmf.kappa_d = "unset"
               THEN \* self.kappa_d was never assigned
                    /\ fit_input' = [keys |-> FitBaseKeys
                                               \cup FitEnergyKeys(mode)
                                               \cup FitCompositionKeys(mode),
                                     Z |-> FitZ(mode, gmf),
                                     kappa_d |-> "unset", done |-> FALSE]
                    /\ fail("AttributeError")
               ELSE /\ fit_input' = [keys |-> FitBaseKeys
                                               \cup FitEnergyKeys(mode)
                                               \cup FitCompositionKeys(mode)
                                               \cup {"kappa_d"},
                                     Z |-> FitZ(mode, gmf),
                                     kappa_d |-> FitKappaD(mode, gmf),
                                     done |-> TRUE]
                    /\ diagnostics' = report
                    /\ IF DiagnosticsRaise(report)
                       THEN \* self.fit is assigned, self.chain is not
                            /\ fit' = [fit EXCEPT !.fit = TRUE]
                            /\ last' = Raised("fit_model",
                                              "DiagnosticsError", TRUE)
                       ELSE /\ fit' = [fit |-> TRUE,
                                        chain |-> ExtractChain(report)]
                            /\ last' = Returned("fit_model", TRUE)
    /\ UNCHANGED <<analysis_type, model, E_grid, Earr_grid, gmf, uhecr,
                   simulation_input, simulation, zvars,
                   xvars>>

\* ---- save
\* the Model wrapper defines __init__, compile and simulation_inputs, and
\* no save method
ModelHasSave == FALSE

GroupsBeforeFit == {"source", "uhecr", "detector", "model"}

\* the sections whose object is there ("if self.data.uhecr:")
SectionsThere ==
    {"source", "detector"} \cup (IF uhecr # {} THEN {"uhecr"} ELSE {})

save ==
    /\ IF ~store.file
       THEN \* h5py.File(None, 'r+')
            /\ last' = Raised("save", "TypeError", FALSE)
            /\ store' = store
       ELSE IF "source" \in store.groups
       THEN \* create_group of a name the file already has
            /\ last' = Raised("save", "ValueError", FALSE)
            /\ store' = store
       ELSE IF ~ModelHasSave
       THEN \* self.model.save(model_handle)
            /\ last' = Raised("save", "AttributeError", FALSE)
            /\ store' = [store EXCEPT !.groups = GroupsBeforeFit,
                                      !.sections = SectionsThere]
       ELSE IF ~fit.fit
       THEN /\ last' = Returned("save", FALSE)
            /\ store' = [store EXCEPT
                            !.groups = GroupsBeforeFit \cup {"fit"},
                            !.sections = SectionsThere \cup {"model"}]
       ELSE IF ~fit.chain
       THEN \* self.chain was never assigned
            /\ last' = Raised("save", "AttributeError", FALSE)
            /\ store' = [store EXCEPT
                            !.groups = GroupsBeforeFit \cup {"fit"},
                            !.sections = SectionsThere \cup {"model"},
                            !.fit = {"input"}]
       ELSE /\ last' = Returned("save", FALSE)
            /\ store' = [store EXCEPT
                            !.groups = GroupsBeforeFit \cup {"fit"},
                            !.sections = SectionsThere \cup {"model"},
                            !.fit = {"input", "samples"}]
    /\ diagnostics' = "none"
    /\ UNCHANGED <<zvars, analysis_type, model, tables, E_grid, Earr_grid,
                   gmf, uhecr, simulation_input, simulation, fit_input,
                   fit, prepare, pool, kgrid, flux>>

BuildTables ==
    \E num_points \in NumPointsValues, sim_only \in BOOLEAN,
       fit_only \in BOOLEAN, parallel \in BOOLEAN :
       build_tables(num_points, sim_only, fit_only, parallel)

BuildEnergyTable ==
    \E num_points \in NumPointsValues, parallel \in BOOLEAN :
       build_energy_table(num_points, parallel)

UseTables ==
    \E file \in TableFiles, main_only \in BOOLEAN :
       use_tables(file, main_only)

FitModel == \E report \in DiagReports : fit_model(report)

Save == save

Next == BuildTables \/ BuildEnergyTable \/ UseTables \/ Simulate \/ FitModel

Spec == Init /\ [][Next]_vars

\* ---- _prepare_fit_inputs, the rows of eps and Earr_grid (lines 471-486)
\* A row of the fit table or of Earr_grid is named by the catalogue index
\* of the source it was computed for; the background row is all zeros.
SourceRow(c, nE) == [src |-> c, len |-> nE, zeros |-> FALSE]

\* [0 for e in E_grid]
ZeroRow(nE) == [src |-> 0 - 1, len |-> nE, zeros |-> TRUE]

\* data.source.selection: a list of distinct indices into the catalogue
Selections(M) ==
    {sel \in UNION {[1 .. n -> 0 .. (M - 1)] : n \in 0 .. M} :
        \A j, k \in 1 .. Len(sel) : j # k => sel[j] # sel[k]}

\* the rows of a table built for the whole catalogue, or for the sources
\* left after select_sources (in the order of the selection)
TableRows(M, selection, built, nE) ==
    IF built = "before"
    THEN [k \in 1 .. M |-> SourceRow(k - 1, nE)]
    ELSE [k \in 1 .. Len(selection) |-> SourceRow(selection[k], nE)]

\* [rows[i] for i in self.data.source.selection]
TakeRows(rows, selection) ==
    [k \in 1 .. Len(selection) |-> rows[selection[k] + 1]]

\* if (self.data.source.N < len(eps_fit)): eps_fit = [...]
FitEps(eps_fit, N, selection) ==
    IF N < Len(eps_fit) THEN TakeRows(eps_fit, selection) ELSE eps_fit

\* Earr_grid = list(self.Earr_grid); the same test on len(eps_fit) selects
\* its rows; then Earr_grid.append([0 for e in E_grid])
FitEarrGrid(eps_fit, Earr, N, selection, nE) ==
    (IF N < Len(eps_fit) THEN TakeRows(Earr, selection) ELSE Earr)
        \o <<ZeroRow(nE)>>

\* mutant: the background row is appended to the stored grid itself
StoredEarrGrid_Mut(Earr, nE) == Earr \o <<ZeroRow(nE)>>

\* self.Earr_grid after the call: list(self.Earr_grid) is a new list of the
\* same rows, so the selection and the append at line 486 act on the copy
StoredEarrGrid(Earr, nE) == Earr

\* self.tables.table after the call: resize rearranges the array in place
\* and keeps its rows; the selection rebinds the local name eps_fit only
StoredTable(eps_fit) == eps_fit

MaxCatalogue == 3   \* most sources in the catalogue
MaxEnergies == 2    \* longest E_grid
MaxCalls == 3       \* most calls of fit_model on one driver

PrepareCall(M, selection, built, nE) ==
    [pc |-> "call", M |-> M, selection |-> selection,
     N |-> Len(selection), built |-> built, nE |-> nE,
     table |-> TableRows(M, selection, built, nE),
     Earr_grid |-> TableRows(M, selection, built, nE),
     eps_fit |-> <<>>, fit_Earr_grid |-> <<>>, calls |-> 0]

\* one call of fit_model, the first or a later one on the same driver
PrepareFitInputs ==
    /\ prepare.pc \in {"call", "done"}
    /\ prepare.calls < MaxCalls
    /\ prepare' = [prepare EXCEPT
                     !.pc = "done",
                     !.calls = prepare.calls + 1,
                     !.table = StoredTable(prepare.table),
                     !.Earr_grid = StoredEarrGrid(prepare.Earr_grid,
                                                  prepare.nE),
                     !.eps_fit = FitEps(prepare.table, prepare.N,
                                        prepare.selection),
                     !.fit_Earr_grid =
                         FitEarrGrid(prepare.table, prepare.Earr_grid,
                                     prepare.N, prepare.selection,
                                     prepare.nE)]
    /\ UNCHANGED <<zvars, dvars, store, pool, kgrid, flux>>

InitPrepare ==
    /\ ZenithIdle
    /\ InitDriver(joint_type, "unset", {ObservedUhecr})
    /\ store = StoreOf(TRUE)
    /\ pool = PoolIdle
    /\ kgrid = KgridIdle
    /\ flux = FluxIdle
    /\ \E M \in 1 .. MaxCatalogue, built \in {"before", "after"},
          nE \in 1 .. MaxEnergies :
          \E selection \in Selections(M) :
             prepare = PrepareCall(M, selection, built, nE)

NextPrepare == PrepareFitInputs

SpecPrepare == InitPrepare /\ [][NextPrepare]_vars

\* ---- build_energy_table step by step (lines 142-171)
MaxDistances == 3   \* most source distances
MaxDistance == 2    \* largest source distance
CpuCounts == {1, 2, 4}   \* what cpu_count() returns

\* nthreads = int(cpu_count() * 0.75)
Nthreads(cpus) == (cpus * 75) \div 100

\* np.logspace(log Eth, log 1e4, num_points): increasing energies from Eth
EnergyGrid(nE) == [k \in 1 .. nE |-> ModelEth + k - 1]

\* get_arrival_energy(e, d)[0]: the energy left after the distance d
get_arrival_energy(e, d) == IF e > d THEN e - d ELSE 0

\* get_arrival_energy_vec((E_grid, d)) and the list comprehension of the
\* sequential path: the arrival energy of every grid energy
get_arrival_energy_vec(grid, d) ==
    [k \in 1 .. Len(grid) |-> get_arrival_energy(grid[k], d)]

EnergyCall(distance, parallel, cpus) ==
    [pc |-> "call", distance |-> distance, parallel |-> parallel,
     cpus |-> cpus, nthreads |-> Nthreads(cpus),
     E_grid |-> <<>>, Earr_grid |-> <<>>,
     next |-> 1, running |-> {}, finished |-> {}, order |-> <<>>,
     results |-> <<>>, i |-> 0]

\* self.E_grid = ...; self.Earr_grid = []; with Pool(self.nthreads)
EnergyStart ==
    /\ pool.pc = "call"
    /\ pool' = [pool EXCEPT
                  !.E_grid = EnergyGrid(MaxEnergies),
                  !.Earr_grid = <<>>,
                  !.pc = IF ~pool.parallel THEN "loop"
                         ELSE IF pool.nthreads < 1
                         THEN "raise"   \* Pool(0): ValueError
                         ELSE "pool"]
    /\ UNCHANGED <<zvars, dvars, store, prepare, kgrid, flux>>

\* mutant: results are taken in the order the workers finish
NextResult_Mut(p) ==
    IF Len(p.order) > Len(p.results)
    THEN {p.order[Len(p.results) + 1]} ELSE {}

\* mpool.imap: the next result is that of the next task submitted, once
\* that task has finished
NextResult(p) ==
    IF (Len(p.results) + 1) \in p.finished
    THEN {Len(p.results) + 1} ELSE {}

\* a free worker takes the next task of args_list
PoolDispatch ==
    /\ pool.pc = "pool"
    /\ Cardinality(pool.running) < pool.nthreads
    /\ pool.next <= Len(pool.distance)
    /\ pool' = [pool EXCEPT !.running = @ \cup {pool.next},
                            !.next = @ + 1]
    /\ UNCHANGED <<zvars, dvars, store, prepare, kgrid, flux>>

\* any running worker finishes its task
PoolFinish ==
    /\ pool.pc = "pool"
    /\ \E k \in pool.running :
          pool' = [pool EXCEPT !.running = @ \ {k},
                              !.finished = @ \cup {k},
                              !.order = Append(@, k)]
    /\ UNCHANGED <<zvars, dvars, store, prepare, kgrid, flux>>

\* list(mpool.imap(...)) receives the next result
PoolCollect ==
    /\ pool.pc = "pool"
    /\ \E k \in NextResult(pool) :
          pool' = [pool EXCEPT
                     !.results =
                        Append(@, get_arrival_energy_vec(pool.E_grid,
                                                         pool.distance[k]))]
    /\ UNCHANGED <<zvars, dvars, store, prepare, kgrid, flux>>

\* self.Earr_grid = results
PoolReturn ==
    /\ pool.pc = "pool"
    /\ Len(pool.results) = Len(pool.distance)
    /\ pool' = [pool EXCEPT !.Earr_grid = pool.results, !.pc = "done"]
    /\ UNCHANGED <<zvars, dvars, store, prepare, kgrid, flux>>

\* for i in range(len(distance)): self.Earr_grid.append([...])
EnergyLoop ==
    /\ pool.pc = "loop"
    /\ IF pool.i < Len(pool.distance)
       THEN pool' = [pool EXCEPT
                       !.Earr_grid =
                          Append(@, [k \in 1 .. Len(pool.E_grid) |->
                                        get_arrival_energy(pool.E_grid[k],
                                            pool.distance[pool.i + 1])]),
                       !.i = @ + 1]
       ELSE pool' = [pool EXCEPT !.pc = "done"]
    /\ UNCHANGED <<zvars, dvars, store, prepare, kgrid, flux>>

InitEnergy ==
    /\ ZenithIdle
    /\ InitDriver(joint_type, "unset", {ObservedUhecr})
    /\ store = StoreOf(TRUE)
    /\ prepare = PrepareIdle
    /\ kgrid = KgridIdle
    /\ flux = FluxIdle
    /\ \E n \in 1 .. MaxDistances, parallel \in BOOLEAN, cpus \in CpuCounts :
          \E distance \in [1 .. n -> 1 .. MaxDistance] :
             pool = EnergyCall(distance, parallel, cpus)

NextEnergy ==
    EnergyStart \/ PoolDispatch \/ PoolFinish \/ PoolCollect \/ PoolReturn
        \/ EnergyLoop

SpecEnergy == InitEnergy /\ [][NextEnergy]_vars

\* ---- the kappa grid of build_tables(fit_only=True) (lines 118-134)
MaxPoints == 100   \* largest num_points

KappaCall(num_points) ==
    [pc |-> "call", num_points |-> num_points, kappa |-> <<>>]

BuildKappa ==
    /\ kgrid.pc = "call"
    /\ kgrid' = [kgrid EXCEPT !.pc = "done",
                              !.kappa = KappaGrid(kgrid.num_points)]
    /\ UNCHANGED <<zvars, dvars, store, prepare, pool, flux>>

InitKappa ==
    /\ ZenithIdle
    /\ InitDriver(arr_dir_type, "unset", {})
    /\ store = StoreOf(TRUE)
    /\ prepare = PrepareIdle
    /\ pool = PoolIdle
    /\ flux = FluxIdle
    /\ \E num_points \in 1 .. MaxPoints : kgrid = KappaCall(num_points)

NextKappa == BuildKappa

SpecKappa == InitKappa /\ [][NextKappa]_vars

(***************************************************************************)
(* simulate, lines 400-406: the 'flux' entry of the simulation input.     *)
(* data.source.flux is None when the source set has no known flux, and    *)
(* otherwise a numpy array or a list of flux values.  The code tests it   *)
(* with "if self.data.source.flux:" inside a try whose bare except puts   *)
(* zeros in its place.                                                     *)
(***************************************************************************)
MaxFlux == 3

FluxKinds == {"ndarray", "list"}

FluxValues == UNION {[1 .. n -> {0, 1}] : n \in 0 .. MaxFlux}

\* the values data.source.flux can hold: None, written {}, or an array or
\* a list of any length
SourceFlux ==
    {{}} \cup {{[kind |-> kind, values |-> values]} :
                  kind \in FluxKinds, values \in FluxValues}

\* bool(flux) as Python evaluates it: None is false, a list is true when it
\* is not empty, an empty array is false, an array of one element has the
\* truth of that element, and an array of more elements raises ValueError
FluxTruth(source_flux) ==
    IF source_flux = {} THEN "false"
    ELSE LET f == Val(source_flux) IN
         IF f.kind = "list"
         THEN (IF Len(f.values) > 0 THEN "true" ELSE "false")
         ELSE IF Len(f.values) = 0 THEN "false"
         ELSE IF Len(f.values) = 1
              THEN (IF f.values[1] # 0 THEN "true" ELSE "false")
         ELSE "ValueError"

\* np.zeros(self.data.source.N)
Zeros(N) == [k \in 1 .. N |-> 0]

\* lines 400-406: the flux itself when the test is true, zeros when it is
\* false and, through the bare except, zeros when the test raises
SimFlux(source_flux, N) ==
    IF FluxTruth(source_flux) = "true"
    THEN Val(source_flux).values
    ELSE Zeros(N)

FluxCall(source_flux, N) ==
    [pc |-> "call", source_flux |-> source_flux, N |-> N, out |-> <<>>]

AssembleFlux ==
    /\ flux.pc = "call"
    /\ flux' = [flux EXCEPT !.pc = "done",
                            !.out = SimFlux(flux.source_flux, flux.N)]
    /\ UNCHANGED <<zvars, dvars, store, prepare, pool, kgrid>>

InitFlux ==
    /\ ZenithIdle
    /\ InitDriver(arr_dir_type, "unset", {})
    /\ store = StoreOf(TRUE)
    /\ prepare = PrepareIdle
    /\ pool = PoolIdle
    /\ kgrid = KgridIdle
    /\ \E source_flux \in SourceFlux, N \in 1 .. MaxFlux :
           flux = FluxCall(source_flux, N)

NextFlux == AssembleFlux

SpecFlux == InitFlux /\ [][NextFlux]_vars

\* ---- persistence: the driver with or without a filename, loading
\* tables, fitting and saving
InitSave ==
    /\ ZenithIdle
    /\ OthersIdle
    /\ \E file \in BOOLEAN : store = StoreOf(file)
    /\ \E mode \in Modes, ptype \in {"unset", "p"},
          data_uhecr \in {{}, {ObservedUhecr}} :
          /\ (mode # gmf_type => ptype = "unset")
          /\ InitDriver(mode, ptype, data_uhecr)

NextSave == UseTables \/ FitModel \/ Save

SpecSave == InitSave /\ [][NextSave]_vars

\* ---- _simulate_zenith_angles on its own, every draw an outcome
InitZenith ==
    /\ Ndir \in 0 .. MaxN
    /\ threshold \in ThrValues
    /\ zpc = "call"
    /\ zen = ZenithEnter
    /\ hist = [low |-> {}, stuck_dirs |-> {}]
    /\ InitDriver(arr_dir_type, "unset", {})
    /\ OthersIdle
    /\ store = StoreOf(TRUE)

NextZenith == ZStart \/ ZFor \/ ZDraw \/ ZAppend

SpecZenith == InitZenith /\ [][NextZenith]_vars

\* the timestamp the next draw adds its increment to
ZenithBase == IF zen.first THEN StartYear ELSE zen.time[Len(zen.time)]

\* C1: every zenith angle returned is at most the threshold, and is exactly
\* the threshold for every direction that was counted as stuck
C1_ZenithAtMostThreshold ==
    zpc = "return" =>
        /\ Len(zen.zenith_angles) = Ndir
        /\ \A k \in 1 .. Len(zen.zenith_angles) :
              /\ zen.zenith_angles[k] <= threshold
              /\ (k \in hist.stuck_dirs => zen.zenith_angles[k] = threshold)

C1_Witness ==
    /\ zpc = "return"
    /\ Ndir = 2
    /\ hist.stuck_dirs = {1}
    /\ zen.zenith_angles[2] < threshold

\* C2: the accepted timestamps are non-decreasing, the first is at least
\* start_year, and every draw's time is the previously accepted timestamp
\* plus one non-negative increment (never a rejected draw's time plus one)
C2_TimestampsNonDecreasing ==
    /\ \A k \in 1 .. Len(zen.time) :
          /\ zen.time[k] >= StartYear
          /\ (k > 1 => zen.time[k - 1] <= zen.time[k])
    /\ (zpc = "while" /\ zen.i > 0) =>
          (zen.t - ZenithBase) \in DtValues

C2_Witness ==
    /\ zpc = "return"
    /\ Len(zen.time) = 2
    /\ zen.time[1] < zen.time[2]
    /\ hist.stuck_dirs = {2}

\* C3: a direction is forced to the threshold and counted as stuck only if no
\* draw made for it produced an angle at or below the threshold
C3_StuckOnlyIfNoDrawAccepted ==
    hist.stuck_dirs \cap hist.low = {}

\* C4: no direction consumes more than 100 random draws
C4_AtMostBudgetDraws ==
    zen.i <= RetryBudget

\* C5: fit_model called once the fit table, the kappa grid and a UHECR
\* dataset are there assembles fit_input and invokes the fit sampler, in
\* every mode and without an energy grid in arrival_direction mode
C5_FitModelRunsOnceTablesReady ==
    (/\ last.op = "fit_model"
     /\ tables.table.kind = "ndarray"
     /\ tables.kappa > 0
     /\ uhecr # {})
    => (last.result = "ok" /\ last.sampler /\ fit_input.done)

\* C6: the input handed to the simulation sampler holds exactly the fields
\* of the mode: kappa, B, alpha/Eth/Eerr and Z as the mode requires, the
\* common fields and flux, and nothing else
C6_SimulationInputFields ==
    simulation_input.handed =>
        LET k == simulation_input.keys
            mode == analysis_type
        IN  /\ ("kappa" \in k) <=> (mode \in {arr_dir_type, E_loss_type})
            /\ ("B" \in k) <=> (mode \in {joint_type, gmf_type})
            /\ \A f \in {"alpha", "Eth", "Eerr"} :
                  (f \in k) <=> (mode # arr_dir_type)
            /\ ("Z" \in k) <=> (mode = gmf_type)
            /\ (simulation_input.Z # {}) <=> (mode = gmf_type)
            /\ k \ {"kappa", "B", "alpha", "Eth", "Eerr", "Z"}
                  = SimBaseKeys \cup {"flux"}

C6_Witness ==
    /\ simulation_input.handed
    /\ analysis_type = E_loss_type
    /\ last = Returned("simulate", TRUE)
    /\ "kappa" \in simulation_input.keys

C8_EnergyCutAtFitThreshold ==
    (last = Returned("simulate", TRUE) /\ EnergyMode(analysis_type)) =>
        LET u == Val(uhecr)
        IN  /\ u.label = "sim_uhecr"
            /\ Len(u.unit_vector) = u.N
            /\ Len(u.energy) = u.N
            /\ Len(u.source_labels) = u.N
            /\ \A k \in 1 .. u.N :
                  /\ u.energy[k] >= model.Eth
                  /\ u.source_labels[k] = LambdaOf(u.unit_vector[k]) - 1
                  /\ (k > 1 => u.unit_vector[k - 1] < u.unit_vector[k])

C8_Witness ==
    /\ last = Returned("simulate", TRUE)
    /\ EnergyMode(analysis_type)
    /\ Val(uhecr).N = 2
    /\ Val(uhecr).unit_vector = <<1, 3>>
    /\ Val(model.Eth_sim) < model.Eth

\* C9: in joint_gmf mode with model.ptype never set, simulate raises before
\* the sampler is invoked: no sampler call, no Z, and the sampler's output
\* and the UHECR dataset are the ones from before the call
C9_SimulateWithoutPtypeFails ==
    [][(/\ analysis_type = gmf_type
        /\ model.ptype = "unset"
        /\ last'.op = "simulate")
       => (/\ last'.result = "AttributeError"
           /\ ~last'.sampler
           /\ ~simulation_input'.handed
           /\ simulation_input'.Z = {}
           /\ "Z" \notin simulation_input'.keys
           /\ simulation' = simulation
           /\ uhecr' = uhecr)]_vars

C9_Witness ==
    /\ analysis_type = gmf_type
    /\ model.ptype = "unset"
    /\ last = Raised("simulate", "AttributeError", FALSE)
    /\ tables.sim_table = NumSources
    /\ uhecr = {ObservedUhecr}

\* C10: after build_tables, whatever its arguments, at least one integral
\* table (the simulation table, or the fit table with its kappa grid) is
\* built
C10_BuildTablesBuildsATable ==
    last.op = "build_tables" =>
        \/ tables.sim_table > 0
        \/ (tables.table.kind = "ndarray" /\ tables.kappa > 0)

\* C11: after use_tables(file) returns in a mode other than
\* arrival_direction, with either value of main_only, E_grid and Earr_grid
\* are the arrays under energy/ of that file, and in joint_gmf mode kappa_d
\* is the file's kappa_d of the dataset's particle type
C11_UseTablesLoadsEnergyGrid ==
    [][\A file \in TableFiles, main_only \in BOOLEAN :
          (/\ last'.op = "use_tables"
           /\ use_tables(file, main_only)
           /\ last'.result = "ok"
           /\ analysis_type # arr_dir_type
           /\ file.energy # {})
          => (/\ E_grid' = {Val(file.energy).cols}
              /\ Earr_grid' # {}
              /\ Val(Earr_grid').rows = Val(file.energy).rows
              /\ Val(Earr_grid').cols = Val(file.energy).cols
              /\ (/\ analysis_type = gmf_type
                  /\ uhecr # {}
                  /\ Val(uhecr).ptype \in file.kappa_d)
                 => gmf'.kappa_d = Val(uhecr).ptype)]_vars

\* C12: use_tables with main_only=True replaces, of the tables object, only
\* the fit table and the kappa grid: the simulation table is the one from
\* before the call (none if none was built), and it is the table simulate
\* reads: the sampler gets a table of one value per source iff one was built
C12_UseTablesKeepsSimTable ==
    [][/\ last'.op = "use_tables" =>
             \A file \in TableFiles :
                use_tables(file, TRUE) =>
                   /\ tables'.sim_table = tables.sim_table
                   /\ tables'.table.shape = file.table
                   /\ tables'.kappa = file.kappa
       /\ (last'.op = "simulate" /\ last'.sampler) =>
             /\ tables' = tables
             /\ (last'.result = "SamplerError")
                   <=> (tables.sim_table # NumSources)]_vars

C12_Witness ==
    /\ last = Returned("use_tables", FALSE)
    /\ tables.sim_table = NumSources
    /\ tables.table.kind = "ndarray"
    /\ Earr_grid # {}
    /\ Val(Earr_grid).kind = "ndarray"

\* C13: a save that opens the file and creates its first group does not
\* fail: it creates the source, uhecr, detector, model and fit groups,
\* writes the sections that are there, returns normally, and writes
\* fit/input and fit/samples iff the fit is populated
C13_SaveSkipsUnpopulated ==
    (last.op = "save" /\ last.result \notin {"TypeError", "ValueError"}) =>
        /\ last.result = "ok"
        /\ store.groups = GroupsBeforeFit \cup {"fit"}
        /\ SectionsThere \subseteq store.sections
        /\ (store.fit = {"input", "samples"}) <=> fit.fit
        /\ (store.fit = {}) <=> ~fit.fit

\* C14: simulate is deterministic given the driver state and the seed: the
\* seed fixes what the sampler returns, so the dataset a returning simulate
\* builds carries the same zenith angles whatever np.random.exponential
\* draws, i.e. the angles of every draw stream
C14_SimulateSeedDeterministic ==
    [][(last'.op = "simulate" /\ last'.result = "ok") =>
          \A stream \in DrawStreams(Val(uhecr').N) :
             Val(uhecr').zenith_angle
                = simulate_zenith_angles(threshold, stream)]_vars

\* C15: fit_model does not abort because of what the diagnostics report: a
\* call in which the sampler was invoked returns normally with the fit and
\* the chain populated whatever the report, and at all times the fit being
\* populated implies the chain save reads for fit/samples is populated
C15_DiagnosticsAdvisory ==
    /\ fit.fit => fit.chain
    /\ (last.op = "fit_model" /\ last.sampler) =>
          /\ last.result = "ok"
          /\ diagnostics \in DiagReports
          /\ fit.fit
          /\ fit.chain
          /\ fit_input.done

C15_Witness ==
    /\ last = Returned("fit_model", TRUE)
    /\ diagnostics = "warnings"
    /\ fit.fit
    /\ fit.chain

\* C16: for every catalogue size and every selection, the fit input has one
\* eps row per selected source in selection order, and an Earr_grid of one
\* row per selected source in selection order followed by exactly one row
\* of len(E_grid) zeros
C16_RowsFollowSelection ==
    prepare.pc = "done" =>
        LET sel == prepare.selection
            eps == prepare.eps_fit
            Earr == prepare.fit_Earr_grid
        IN  /\ Len(eps) = Len(sel)
            /\ \A k \in 1 .. Len(sel) : eps[k].src = sel[k]
            /\ Len(Earr) = Len(sel) + 1
            /\ \A k \in 1 .. Len(sel) :
                  /\ Earr[k].src = sel[k]
                  /\ ~Earr[k].zeros
            /\ Earr[Len(sel) + 1].zeros
            /\ Earr[Len(sel) + 1].len = prepare.nE

\* C17: build_energy_table with parallel=True gives what it gives with
\* parallel=False: the call does not raise, and when it returns Earr_grid
\* has exactly one row per source distance, row i being the arrival
\* energies of E_grid for distance i, whatever order the workers finished in
C17_ParallelSameAsSequential ==
    /\ pool.pc # "raise"
    /\ pool.pc = "done" =>
          /\ Len(pool.Earr_grid) = Len(pool.distance)
          /\ \A i \in 1 .. Len(pool.distance) :
                pool.Earr_grid[i]
                   = get_arrival_energy_vec(pool.E_grid, pool.distance[i])

\* what does hold: a parallel run that returns has its rows in the order of
\* the source distances
EnergyRowsInSubmissionOrder ==
    (pool.pc = "done" /\ pool.parallel) =>
        /\ Len(pool.Earr_grid) = Len(pool.distance)
        /\ \A i \in 1 .. Len(pool.distance) :
              pool.Earr_grid[i]
                 = get_arrival_energy_vec(pool.E_grid, pool.distance[i])

\* kappa values compared by their exponents n/d
KappaLess(p, q) == p.n * q.d < q.n * p.d

\* how often the value 10^decade occurs in a grid
KappaCount(grid, decade) ==
    Cardinality({k \in 1 .. Len(grid) : grid[k].n = decade * grid[k].d})

\* C18: for every positive num_points the fit kappa grid is strictly
\* increasing and holds each of the segment boundaries 10 and 100 exactly
\* once
C18_KappaGridIncreasing ==
    kgrid.pc = "done" =>
        /\ \A k \in 2 .. Len(kgrid.kappa) :
              KappaLess(kgrid.kappa[k - 1], kgrid.kappa[k])
        /\ KappaCount(kgrid.kappa, 1) = 1
        /\ KappaCount(kgrid.kappa, 2) = 1

\* what does hold: from num_points = 5 on (50 included) the grid is
\* strictly increasing with 10 and 100 once each
KappaGridIncreasingFromFive ==
    (kgrid.pc = "done" /\ kgrid.num_points >= 5) =>
        /\ \A k \in 2 .. Len(kgrid.kappa) :
              KappaLess(kgrid.kappa[k - 1], kgrid.kappa[k])
        /\ KappaCount(kgrid.kappa, 1) = 1
        /\ KappaCount(kgrid.kappa, 2) = 1

\* C19: for every positive num_points n the fit kappa grid has exactly n
\* points, int(0.7 n) of them in [1, 10], int(0.2 n) in (10, 100] and
\* int(0.1 n) in (100, 1000]
C19_KappaGridHasNumPoints ==
    kgrid.pc = "done" =>
        LET n == kgrid.num_points
            grid == kgrid.kappa
            within(lo, hi) ==
                Cardinality({k \in 1 .. Len(grid) :
                                /\ lo * grid[k].d < grid[k].n
                                /\ grid[k].n <= hi * grid[k].d})
        IN  /\ Len(grid) = n
            /\ IntTenths(n, 7) + IntTenths(n, 2) + IntTenths(n, 1) = n
            /\ within(0 - 1, 1) = IntTenths(n, 7)
            /\ within(1, 2) = IntTenths(n, 2)
            /\ within(2, 3) = IntTenths(n, 1)

\* C20: whenever fit_model is called with a fit table and an energy grid
\* for the same sources, whatever their grid sizes, the fit input is built
\* with Ngrid = len(kappa_grid) and eps (the fit table, collapsed in place)
\* of one row per source and Ngrid values per row
C20_EpsRowsHaveNgridValues ==
    (/\ last.op = "fit_model"
     /\ tables.table.kind = "ndarray"
     /\ E_grid # {}
     /\ Earr_grid # {}
     /\ Val(Earr_grid).kind = "ndarray"
     /\ Val(Earr_grid).rows = NumSources
     /\ uhecr # {}
     /\ (analysis_type = gmf_type =>
            gmf.ptype # "unset" /\ gmf.kappa_d # "unset"))
    => (/\ last.result = "ok"
        /\ fit_input.done
        /\ "Ngrid" \in fit_input.keys
        /\ tables.table.shape = <<NumSources, tables.kappa>>)

\* C21: in simulate the 'flux' input is the source set's known flux whenever
\* it is present, whatever its length, and zeros of length data.source.N
\* only when the source set has no known flux
C21_FluxKeptWhenPresent ==
    flux.pc = "done" =>
        IF flux.source_flux = {}
        THEN flux.out = Zeros(flux.N)
        ELSE flux.out = Val(flux.source_flux).values

\* C22: in every mode other than arrival_direction the constructor has
\* derived model.Eth_sim, so it is defined when simulate assembles its
\* input, also without an Eth_sim argument, and simulate passes it as 'Eth'
C22_EthSimDefinedInEnergyModes ==
    EnergyMode(analysis_type) =>
        /\ model.Eth_sim # {}
        /\ last.op = "simulate" => "Eth" \in simulation_input.keys

\* C23: in the joint_gmf mode, whatever the order of use_tables and simulate
\* before fit_model, 'Z' and 'kappa_d' of the fit input are those of the
\* particle type of data.uhecr as it is when fit_model runs
C23_FitCompositionOfCurrentDataset ==
    (analysis_type = gmf_type /\ last = Returned("fit_model", TRUE)) =>
        /\ fit_input.Z = {NucZ(Val(uhecr).ptype)}
        /\ fit_input.kappa_d = Val(uhecr).ptype

\* C24: after every successful simulate the rebuilt dataset is row-aligned:
\* N is the number of events kept (all of them, in their order, in the
\* arrival_direction mode), and unit vectors, zenith angles, areas and
\* source labels have N entries each, as has the energy in the other modes
C24_SimulatedDatasetRowAligned ==
    last = Returned("simulate", TRUE) =>
        LET u == Val(uhecr)
        IN  /\ uhecr # {}
            /\ u.N = Len(u.unit_vector)
            /\ u.N = Len(u.zenith_angle)
            /\ u.N = u.A
            /\ u.N = Len(u.source_labels)
            /\ IF EnergyMode(analysis_type)
               THEN u.N = Len(u.energy)
               ELSE u.unit_vector = AllEvents(u.unit_vector)

\* three events simulated in a mode with energies, the first one cut
C24_Witness ==
    /\ last = Returned("simulate", TRUE)
    /\ analysis_type = joint_type
    /\ Val(uhecr).unit_vector = <<2, 3>>
    /\ Val(uhecr).source_labels = <<1, 0>>
    /\ Len(Val(uhecr).zenith_angle) = 2

\* C25: a further fit_model on the same driver yields the same fit input:
\* the stored table and Earr_grid are as before the call, eps has the same
\* rows, and the fit input's Earr_grid is the same with exactly one row of
\* zeros, however many calls were made
C25_PrepareFitInputsRepeatable ==
    [][(prepare.pc = "done" /\ prepare'.pc = "done") =>
           /\ prepare'.Earr_grid = prepare.Earr_grid
           /\ prepare'.table = prepare.table
           /\ prepare'.eps_fit = prepare.eps_fit
           /\ prepare'.fit_Earr_grid = prepare.fit_Earr_grid
           /\ Cardinality({k \in 1 .. Len(prepare'.fit_Earr_grid) :
                              prepare'.fit_Earr_grid[k].zeros}) = 1]_vars

\* the third call on a catalogue of three sources of which two are selected
C25_Witness ==
    /\ prepare.pc = "done"
    /\ prepare.calls = MaxCalls
    /\ prepare.M = 3
    /\ prepare.N = 2
    /\ Len(prepare.Earr_grid) = 3
    /\ Len(prepare.fit_Earr_grid) = 3

\* C26: the pool size int(0.75 * cpu_count()) is at least 1 and at most the
\* core count for every core count of 1 or more, so that the pool of
\* build_energy_table can be created on any machine
C26_PoolSizeWithinCores ==
    pool.pc # "idle" =>
        /\ pool.nthreads >= 1
        /\ pool.nthreads <= pool.cpus
        /\ pool.parallel => pool.pc # "raise"

====
